---------------------------- MODULE Spec2Model ----------------------------
(***************************************************************************)
(* Model of the two generator scripts of data_utils:                       *)
(*   csvtordfexample/mksupplierdata.py  (supplier rows -> JSON-LD files)   *)
(*   netconfig/mknetconfig.py           (host rows -> dhcpd / zone files)  *)
(*                                                                         *)
(* A Python string is a sequence of one-character strings, so that strip,  *)
(* lower, translate and indexing act on characters.  A literal part of an  *)
(* f-string is kept as one element of the sequence (f"fp:{x}" is           *)
(* <<"fp:">> \o x).  Python index k of a row is index k+1 here.            *)
(***************************************************************************)
EXTENDS Integers, Sequences, FiniteSets, TLC

VARIABLES
    prog,          \* which script runs ("pure": a helper is called on its own)
    pc,            \* position in run()
    gridfilename,  \* run: gridfilename
    outfilebase,   \* run: outfilebase
    grid,          \* the rows the grid has yielded to the mapper so far
    row,           \* getsupplierdata: row
    supplierdata,  \* getsupplierdata: supplierdata (dict, in insertion order)
    hostdata,      \* gethostdata: hostdata (dict, in insertion order)
    sidx,          \* mksupplierjson: position of the for loop in supplierdata.items()
    files,         \* the output files: path -> [complete, content]
    status,        \* run: status
    fault,         \* what went wrong in the environment, "none" if nothing
    arg,           \* argument of a helper called on its own
    result         \* results of the helper calls made on arg

vars == <<prog, pc, gridfilename, outfilebase, grid, row, supplierdata,
          hostdata, sidx, files, status, fault, arg, result>>

-----------------------------------------------------------------------------
(* Bounds *)

\* most rows a grid yields
MaxRows == 7
\* most rows a host grid yields
MaxHostRows == 4
\* longest string of the alphabet handed to a helper called on its own
MaxLen == 3

-----------------------------------------------------------------------------
(* Python values *)

PyTrue  == [type |-> "bool", val |-> "True"]
PyFalse == [type |-> "bool", val |-> "False"]
PyNone  == [type |-> "NoneType", val |-> "None"]
Str(s)  == [type |-> "str", val |-> s]
List(l) == [type |-> "list", val |-> l]

\* str.strip() removes leading and trailing whitespace
Whitespace == {" ", "\t", "\n", "\r", "\f"}

SetMin(S) == CHOOSE x \in S : \A y \in S : x <= y
SetMax(S) == CHOOSE x \in S : \A y \in S : y <= x

strip(s) ==
    LET ink == {i \in 1..Len(s) : s[i] \notin Whitespace}
    IN  IF ink = {} THEN <<>> ELSE SubSeq(s, SetMin(ink), SetMax(ink))

\* the letters str.lower() and str.upper() map to each other
Lowercase ==
    << "a", "b", "c", "d", "e", "f", "g", "h", "i", "j", "k", "l", "m",
       "n", "o", "p", "q", "r", "s", "t", "u", "v", "w", "x", "y", "z" >>

Uppercase ==
    << "A", "B", "C", "D", "E", "F", "G", "H", "I", "J", "K", "L", "M",
       "N", "O", "P", "Q", "R", "S", "T", "U", "V", "W", "X", "Y", "Z" >>

lower_char(c) ==
    IF \E i \in 1..26 : Uppercase[i] = c
    THEN Lowercase[CHOOSE i \in 1..26 : Uppercase[i] = c]
    ELSE c

upper_char(c) ==
    IF \E i \in 1..26 : Lowercase[i] = c
    THEN Uppercase[CHOOSE i \in 1..26 : Lowercase[i] = c]
    ELSE c

lower(s) == [i \in 1..Len(s) |-> lower_char(s[i])]

map_bool_nolower(v) ==
    IF v \in { <<"y", "e", "s">>, <<"y">>, <<"t", "r", "u", "e">>, <<"t">> } THEN PyTrue
    ELSE IF v \in { <<"n", "o">>, <<"n">>, <<"f", "a", "l", "s", "e">>, <<"f">> } THEN PyFalse
    ELSE PyNone

map_bool(v) ==
    LET lv == lower(v)
    IN  IF lv \in { <<"y", "e", "s">>, <<"y">>, <<"t", "r", "u", "e">>, <<"t">> } THEN PyTrue
        ELSE IF lv \in { <<"n", "o">>, <<"n">>, <<"f", "a", "l", "s", "e">>, <<"f">> } THEN PyFalse
        ELSE PyNone

\* str.maketrans(" /.", "___", ":,'+&"): the image of one character
NAME_ID_TABLE_slash(c) ==
    IF c \in {" ", "."} THEN <<"_">>
    ELSE IF c = "/" THEN <<" ">>
    ELSE IF c \in {":", ",", "'", "+", "&"} THEN <<>>
    ELSE <<c>>

NAME_ID_TABLE_keepdot(c) ==
    IF c \in {" ", "/"} THEN <<"_">>
    ELSE IF c \in {":", ",", "'", "+", "&"} THEN <<>>
    ELSE <<c>>

NAME_ID_TABLE(c) ==
    IF c \in {" ", "/", "."} THEN <<"_">>
    ELSE IF c \in {":", ",", "'", "+", "&"} THEN <<>>
    ELSE <<c>>

RECURSIVE translate_name_id(_)
translate_name_id(n) ==
    IF n = <<>> THEN <<>>
    ELSE NAME_ID_TABLE(Head(n)) \o translate_name_id(Tail(n))

-----------------------------------------------------------------------------
(* Python dict: a sequence of [k, v] in insertion order.  Assigning to a key    *)
(* already present replaces its value and keeps its position.                   *)

DictKeys(d) == {d[i].k : i \in 1..Len(d)}

DictGet(d, key) == d[CHOOSE i \in 1..Len(d) : d[i].k = key].v

\* a dict whose assignment does not replace an entry already there
DictSet_setdefault(d, key, value) ==
    IF key \in DictKeys(d) THEN d ELSE Append(d, [k |-> key, v |-> value])

DictSet(d, key, value) ==
    IF key \in DictKeys(d)
    THEN [i \in 1..Len(d) |-> IF d[i].k = key THEN [k |-> key, v |-> value] ELSE d[i]]
    ELSE Append(d, [k |-> key, v |-> value])

-----------------------------------------------------------------------------
(* getsupplierdata *)

\* `if row <= 5: continue`
HeaderRows == 5

\* h[k] raises IndexError
IndexError(h, k) == Len(h) <= k

\* `if supplier_name and supplier_name[0] != "["`, without the bracket test
is_supplier_any(supplier_name) == supplier_name # <<>>

is_supplier(supplier_name) ==
    supplier_name # <<>> /\ supplier_name[1] # "["

\* the body of the try block, for a row of at least ten cells
supplier_try(data, h) ==
    LET product_type         == strip(h[1])
        supplier_name        == strip(h[2])
        location             == strip(h[3])
        supplier_status      == strip(h[4])
        animal_use_cell      == strip(h[5])
        packaging_recyclable == strip(h[6])
        retail_availability  == strip(h[7])
        multinational_org    == strip(h[8])
        supplier_web_page    == strip(h[9])
        comments             == strip(h[10])
        animal_use ==
            IF animal_use_cell \in { <<"U", "n", "s", "u", "r", "e">>, <<>> }
            THEN <<"Unknown">> ELSE animal_use_cell
        recycling_status ==
            IF packaging_recyclable = <<"Y", "e", "s">> THEN <<"Food_packaging_recyclable">>
            ELSE IF packaging_recyclable = <<"M", "o", "s", "t", "l", "y">>
                 THEN <<"Food_packaging_part_recyclable">>
            ELSE IF packaging_recyclable = <<"U", "n", "s", "u", "r", "e">> THEN <<"Unknown">>
            ELSE <<>>
        supplier_id == translate_name_id(supplier_name)
    IN  IF is_supplier(supplier_name)
        THEN DictSet(data, supplier_id,
               << [k |-> "@id",        v |-> Str(<<"Potential_suppliers/">> \o supplier_id)],
                  [k |-> "@type",      v |-> List(<< <<"fp:Potential_suppliers">>,
                                                     <<"annal:EntityData">> >>)],
                  [k |-> "annal:id",   v |-> Str(supplier_id)],
                  [k |-> "annal:type", v |-> Str(<<"fp:Potential_suppliers">>)],
                  [k |-> "annal:type_id", v |-> Str(<<"Potential_suppliers">>)],
                  [k |-> "annal:uri",  v |-> Str(<<"fp:">> \o supplier_id)],
                  [k |-> "fp:company_status",  v |-> Str(<<"Company_status/">> \o supplier_status)],
                  [k |-> "fp:company_website", v |-> Str(supplier_web_page)],
                  [k |-> "fp:location_ref",    v |-> Str(<<"Location/">> \o location)],
                  [k |-> "fp:multinational_organization", v |-> map_bool(multinational_org)],
                  [k |-> "fp:product_animal_use", v |-> Str(<<"Animal_use/">> \o animal_use)],
                  [k |-> "fp:product_type_ref",
                   v |-> Str(<<"Product_type/">> \o translate_name_id(product_type))],
                  [k |-> "fp:recycling_status",
                   v |-> Str(<<"Recycling_status/">> \o recycling_status)],
                  [k |-> "fp:retail_availability", v |-> map_bool(retail_availability)],
                  [k |-> "rdfs:comment", v |-> Str(comments)],
                  [k |-> "rdfs:label",   v |-> Str(supplier_name)] >>)
        ELSE data

\* a row read with missing cells taken as empty instead of raising
PadRow(h) == h \o [i \in 1..(10 - Len(h)) |-> <<>>]

getsupplierdata_row_padded(data, r, h) ==
    IF r <= HeaderRows THEN data
    ELSE supplier_try(data, IF Len(h) < 10 THEN PadRow(h) ELSE h)

\* the header test off by one
getsupplierdata_row_early(data, r, h) ==
    IF r < HeaderRows THEN data
    ELSE IF IndexError(h, 9) THEN data
    ELSE supplier_try(data, h)

\* one pass of `for h in grid`, r the value of row after `row += 1`
getsupplierdata_row(data, r, h) ==
    IF r <= HeaderRows THEN data
    ELSE IF IndexError(h, 9) THEN data
    ELSE supplier_try(data, h)

\* getsupplierdata on a whole grid: the dict it returns
RECURSIVE getsupplierdata_from(_, _, _)
getsupplierdata_from(data, r, rows) ==
    IF rows = <<>> THEN data
    ELSE getsupplierdata_from(getsupplierdata_row(data, r + 1, Head(rows)), r + 1, Tail(rows))

getsupplierdata(rows) == getsupplierdata_from(<<>>, 0, rows)

-----------------------------------------------------------------------------
(* gethostdata *)

gethostdata_row(data, h) ==
    IF IndexError(h, 4) THEN data
    ELSE LET name    == strip(h[2])
             ipaddr  == strip(h[3])
             macaddr == strip(h[4])
             descr   == strip(h[5])
         IN  IF name # <<>>
             THEN DictSet(data, name,
                    [name |-> name, ipaddr |-> ipaddr, macaddr |-> macaddr, descr |-> descr])
             ELSE data

RECURSIVE gethostdata(_)
gethostdata(rows) ==
    IF rows = <<>> THEN <<>>
    ELSE gethostdata_row(gethostdata(SubSeq(rows, 1, Len(rows) - 1)), rows[Len(rows)])

-----------------------------------------------------------------------------
(* The grids the model reads.  The grid is the reader of grid.grid, which is  *)
(* outside these scripts: the model takes the rows it yields as given, each a *)
(* sequence of strings.                                                       *)

\* a supplier
RowFoo ==
    << <<"T", "/", "a">>,
       <<" ", "F", "o", "o", " ", "&", " ", "B", "a", "r", ",", " ", "L", "t", "d", ".", " ">>,
       <<"U", "K">>,
       <<"O", "k">>,
       <<"U", "n", "s", "u", "r", "e">>,
       <<"Y", "e", "s">>,
       <<"Y">>,
       <<"n", "o">>,
       <<"w">>,
       <<"c">> >>

\* another name with the identifier of RowFoo, other data
RowFooSlash ==
    << <<"T", " ", "a">>,
       <<"F", "o", "o", "/", " ", "B", "a", "r", " ", "L", "t", "d", ".">>,
       <<"U", "K", " ">>,
       <<"N", "e", "w">>,
       <<"N", "o">>,
       <<"M", "o", "s", "t", "l", "y">>,
       <<>>,
       <<"T", "R", "U", "E">>,
       <<"w">>,
       <<"d">> >>

\* a supplier with another identifier
RowAcme ==
    << <<"T", "e", "a">>,
       <<"A", "c", "m", "e", " ", "C", "o">>,
       <<"F", "R">>,
       <<"O", "k">>,
       <<>>,
       <<"U", "n", "s", "u", "r", "e">>,
       <<"f">>,
       <<"m", "a", "y", "b", "e">>,
       <<>>,
       <<>> >>

\* nine cells
RowShort ==
    << <<"T", "e", "a">>,
       <<"Z", "e", "d">>,
       <<"U", "K">>,
       <<"O", "k">>,
       <<"N", "o">>,
       <<"Y", "e", "s">>,
       <<"Y">>,
       <<"n", "o">>,
       <<"w">> >>

\* a placeholder row
RowBracket ==
    << <<"T", "e", "a">>,
       <<" ", "[", "t", "b", "d", "]">>,
       <<"U", "K">>,
       <<"O", "k">>,
       <<"N", "o">>,
       <<"Y", "e", "s">>,
       <<"Y">>,
       <<"n", "o">>,
       <<"w">>,
       <<"c">> >>

\* a row with a blank name
RowBlank ==
    << <<"T", "e", "a">>,
       <<" ", " ">>,
       <<"U", "K">>,
       <<"O", "k">>,
       <<"N", "o">>,
       <<"Y", "e", "s">>,
       <<"Y">>,
       <<"n", "o">>,
       <<"w">>,
       <<"c">> >>

RowSet == {RowFoo, RowFooSlash, RowAcme, RowShort, RowBracket, RowBlank}

\* the rows a title row is drawn from
TitleRowSet == {RowFoo, RowShort}

\* the rows a supplier grid may hold at position n
SupplierRows(n) == IF n <= HeaderRows THEN TitleRowSet ELSE RowSet

\* a host with a MAC address
HostAlpha ==
    << <<"1">>,
       <<" ", "a", "l", "p", "h", "a", " ">>,
       <<"1", "0", ".", "1">>,
       <<"a", "a", ":", "0", "1">>,
       <<"w", "e", "b">> >>

\* a host with a blank MAC address
HostBeta ==
    << <<"2">>,
       <<"b", "e", "t", "a">>,
       <<"1", "0", ".", "2">>,
       <<" ", " ">>,
       <<"n", "a", "s">> >>

\* the name of HostAlpha again, without MAC address
HostAlphaMoved ==
    << <<"3">>,
       <<"a", "l", "p", "h", "a">>,
       <<"1", "0", ".", "9">>,
       <<>>,
       <<"o", "l", "d">> >>

\* four cells
HostShort ==
    << <<"4">>,
       <<"g", "a", "m", "m", "a">>,
       <<"1", "0", ".", "3">>,
       <<"a", "a", ":", "0", "3">> >>

\* a row with a blank name
HostNoName ==
    << <<"5">>,
       <<" ">>,
       <<"1", "0", ".", "4">>,
       <<"a", "a", ":", "0", "4">>,
       <<"x">> >>

HostRowSet == {HostAlpha, HostBeta, HostAlphaMoved, HostShort, HostNoName}

FileNames ==
    { <<"s", ".", "c", "s", "v">>, <<"s", ".", "t", "s", "v">>, <<"s", ".", "x", "l", "s">>,
      <<"s", ".", "t", "x", "t">>, <<"c", "s", "v">> }

-----------------------------------------------------------------------------
(* mksupplierjson *)

NoFiles == [p \in {} |-> 0]

\* `for itm in v[1:]: f.write(f', "{itm}"')`
RECURSIVE render_items(_)
render_items(l) ==
    IF l = <<>> THEN <<>>
    ELSE <<", ">> \o <<"\"">> \o Head(l) \o <<"\"">> \o render_items(Tail(l))

\* the text written for one value of a record
render(v) ==
    IF v.type = "list"
    THEN <<"[ ">> \o <<"\"">> \o Head(v.val) \o <<"\"">> \o render_items(Tail(v.val)) \o <<" ]">>
    ELSE IF v.type = "bool" THEN (IF v = PyTrue THEN <<"true">> ELSE <<"false">>)
    ELSE IF v.type = "NoneType" THEN <<"\"", "None", "\"">>
    ELSE <<"\"">> \o v.val \o <<"\"">>

\* the text of entity_data.jsonld: the context block, one line per field, the end
entity_data(sdata) ==
    << <<"@context">> >>
    \o [i \in 1..Len(sdata) |-> <<sdata[i].k>> \o render(sdata[i].v)]
    \o << <<"}">> >>

supplier_filepath(base, sdata) ==
    base \o <<"/">> \o DictGet(sdata, "annal:id").val \o <<"/">> \o <<"entity_data.jsonld">>

\* What the file system may do with the calls that create one file: all of them
\* succeed, os.mkdir or open raises before anything is written, or an f.write
\* raises after `written` parts of the text (none, the first, all but the last).
WriteOutcomes(content) ==
    {[kind |-> k, written |-> 0] : k \in {"ok", "mkdir_error", "open_error"}}
    \cup {[kind |-> "write_error", written |-> n] : n \in {0, 1, Len(content) - 1}}

\* a serializer that removes what it wrote when a write fails
mksupplierjson_write_cleanup(fs, path, content, outcome) ==
    IF outcome.kind = "ok" THEN (path :> [complete |-> TRUE, content |-> content]) @@ fs
    ELSE NoFiles

\* the file system after one pass of the loop over supplierdata.items():
\* os.mkdir or open raise before anything is written, a failing f.write leaves
\* the part written so far
mksupplierjson_write(fs, path, content, outcome) ==
    IF outcome.kind = "ok" THEN (path :> [complete |-> TRUE, content |-> content]) @@ fs
    ELSE IF outcome.kind = "write_error"
         THEN (path :> [complete |-> FALSE,
                        content |-> SubSeq(content, 1, outcome.written)]) @@ fs
    ELSE fs

-----------------------------------------------------------------------------
(* mkdhcpdconf, mkzonehosts *)

\* a dhcpd.conf with a stanza for every host
dhcpd_entries_all(data) ==
    [i \in 1..Len(data) |->
        [kind |-> "host", name |-> data[i].v.name, descr |-> data[i].v.descr,
         ethernet |-> data[i].v.macaddr,
         fixed |-> data[i].v.name \o <<".atuin.ninebynine.org">>]]

\* the stanzas written by the loop of mkdhcpdconf
dhcpd_entries(data) ==
    LET withmac == SelectSeq(data, LAMBDA e : e.v.macaddr # <<>>)
    IN  [i \in 1..Len(withmac) |->
            [kind |-> "host", name |-> withmac[i].v.name, descr |-> withmac[i].v.descr,
             ethernet |-> withmac[i].v.macaddr,
             fixed |-> withmac[i].v.name \o <<".atuin.ninebynine.org">>]]

\* the lines written by the loop of mkzonehosts
zone_entries(data) ==
    [i \in 1..Len(data) |->
        [kind |-> "A", name |-> data[i].v.name, ipaddr |-> data[i].v.ipaddr,
         descr |-> data[i].v.descr]]

\* the text of <filebase>.dhcpd.conf: the header comment, then the stanzas
dhcpdconf(data) == << [kind |-> "header"] >> \o dhcpd_entries(data)

\* the text of <filebase>.zone.hosts: the header comment, then the lines
zonehosts(data) == << [kind |-> "header"] >> \o zone_entries(data)

\* the file system after `with open(path, "wt") as f:` and its writes
write_file(fs, path, content, outcome) ==
    IF outcome.kind = "ok" THEN (path :> [complete |-> TRUE, content |-> content]) @@ fs
    ELSE IF outcome.kind = "write_error"
         THEN (path :> [complete |-> FALSE,
                        content |-> SubSeq(content, 1, outcome.written)]) @@ fs
    ELSE fs

-----------------------------------------------------------------------------
(* run *)

endswith(s, suffix) ==
    Len(s) >= Len(suffix) /\ SubSeq(s, Len(s) - Len(suffix) + 1, Len(s)) = suffix

\* the chain of gridfilename.endswith tests
recognized(name) ==
    \/ endswith(name, <<".", "c", "s", "v">>)
    \/ endswith(name, <<".", "t", "s", "v">>)
    \/ endswith(name, <<".", "x", "l", "s">>)

TypeDefaults ==
    /\ outfilebase = gridfilename
    /\ grid = <<>>
    /\ row = 0
    /\ supplierdata = <<>>
    /\ hostdata = <<>>
    /\ sidx = 0
    /\ files = NoFiles
    /\ status = 0
    /\ fault = "none"

Init ==
    /\ prog \in {"mksupplierdata", "mknetconfig"}
    /\ pc = "open"
    /\ gridfilename \in FileNames
    /\ TypeDefaults
    /\ arg = <<>>
    /\ result = <<>>

\* run of either script, up to the call of the mapper
OpenGrid ==
    /\ pc = "open"
    /\ IF ~recognized(gridfilename)
       THEN /\ pc' = "returned" /\ status' = 2 /\ fault' = "filetype"
            /\ UNCHANGED outfilebase
       ELSE \E opened \in BOOLEAN :
              IF opened
              THEN /\ pc' = "getdata"
                   /\ outfilebase' = SubSeq(gridfilename, 1, Len(gridfilename) - 4)
                   /\ UNCHANGED <<status, fault>>
              ELSE /\ pc' = "returned" /\ status' = 2 /\ fault' = "open"
                   /\ UNCHANGED outfilebase
    /\ UNCHANGED <<prog, gridfilename, grid, row, supplierdata, hostdata, sidx, files,
                   arg, result>>

\* getsupplierdata: one pass of `for h in grid`
SupplierRow ==
    /\ prog = "mksupplierdata" /\ pc = "getdata"
    /\ Len(grid) < MaxRows
    /\ \E h \in SupplierRows(Len(grid) + 1) :
          /\ grid' = Append(grid, h)
          /\ row' = row + 1
          /\ supplierdata' = getsupplierdata_row(supplierdata, row + 1, h)
    /\ UNCHANGED <<prog, pc, gridfilename, outfilebase, hostdata, sidx, files, status,
                   fault, arg, result>>

\* getsupplierdata: the grid is exhausted, `return (0, supplierdata)`
SupplierReturn ==
    /\ prog = "mksupplierdata" /\ pc = "getdata"
    /\ pc' = "serialize"
    /\ status' = 0
    /\ UNCHANGED <<prog, gridfilename, outfilebase, grid, row, supplierdata, hostdata,
                   sidx, files, fault, arg, result>>

\* mksupplierjson: os.mkdir(outfilebase); any exception but FileExistsError
\* reaches the except clause of run
SupplierMkdir ==
    /\ prog = "mksupplierdata" /\ pc = "serialize"
    /\ \E outcome \in {"ok", "exists", "mkdir_error"} :
          IF outcome = "mkdir_error"
          THEN /\ pc' = "returned" /\ status' = 2 /\ fault' = "serialize"
               /\ UNCHANGED sidx
          ELSE /\ pc' = "write" /\ sidx' = 1
               /\ UNCHANGED <<status, fault>>
    /\ UNCHANGED <<prog, gridfilename, outfilebase, grid, row, supplierdata, hostdata,
                   files, arg, result>>

\* mksupplierjson: one pass of `for sid,sdata in supplierdata.items()`
SupplierWrite ==
    /\ prog = "mksupplierdata" /\ pc = "write"
    /\ sidx <= Len(supplierdata)
    /\ \E outcome \in WriteOutcomes(entity_data(supplierdata[sidx].v)) :
          /\ files' = mksupplierjson_write(files,
                         supplier_filepath(outfilebase, supplierdata[sidx].v),
                         entity_data(supplierdata[sidx].v), outcome)
          /\ IF outcome.kind = "ok"
             THEN /\ sidx' = sidx + 1
                  /\ UNCHANGED <<pc, status, fault>>
             ELSE /\ pc' = "returned" /\ status' = 2 /\ fault' = "serialize"
                  /\ UNCHANGED sidx
    /\ UNCHANGED <<prog, gridfilename, outfilebase, grid, row, supplierdata, hostdata,
                   arg, result>>

\* mksupplierjson: `return 0`, and run returns it
SupplierDone ==
    /\ prog = "mksupplierdata" /\ pc = "write"
    /\ sidx > Len(supplierdata)
    /\ pc' = "returned"
    /\ status' = 0
    /\ UNCHANGED <<prog, gridfilename, outfilebase, grid, row, supplierdata, hostdata,
                   sidx, files, fault, arg, result>>

\* gethostdata: one pass of `for h in grid`
HostRow ==
    /\ prog = "mknetconfig" /\ pc = "getdata"
    /\ Len(grid) < MaxHostRows
    /\ \E h \in HostRowSet :
          /\ grid' = Append(grid, h)
          /\ hostdata' = gethostdata_row(hostdata, h)
    /\ UNCHANGED <<prog, pc, gridfilename, outfilebase, row, supplierdata, sidx, files,
                   status, fault, arg, result>>

\* gethostdata: `return (0, hostdata)`
HostReturn ==
    /\ prog = "mknetconfig" /\ pc = "getdata"
    /\ pc' = "dhcpd"
    /\ status' = 0
    /\ UNCHANGED <<prog, gridfilename, outfilebase, grid, row, supplierdata, hostdata,
                   sidx, files, fault, arg, result>>

\* mkdhcpdconf; run has no except clause, an exception leaves run
HostDhcpd ==
    /\ prog = "mknetconfig" /\ pc = "dhcpd"
    /\ \E outcome \in {o \in WriteOutcomes(dhcpdconf(hostdata)) : o.kind # "mkdir_error"} :
          /\ files' = write_file(files, outfilebase \o <<".dhcpd.conf">>,
                         dhcpdconf(hostdata), outcome)
          /\ IF outcome.kind = "ok"
             THEN /\ pc' = "zone" /\ status' = 0 /\ UNCHANGED fault
             ELSE /\ pc' = "raised" /\ fault' = "serialize" /\ UNCHANGED status
    /\ UNCHANGED <<prog, gridfilename, outfilebase, grid, row, supplierdata, hostdata,
                   sidx, arg, result>>

\* mkzonehosts, and run returns its status
HostZone ==
    /\ prog = "mknetconfig" /\ pc = "zone"
    /\ \E outcome \in {o \in WriteOutcomes(zonehosts(hostdata)) : o.kind # "mkdir_error"} :
          /\ files' = write_file(files, outfilebase \o <<".zone.hosts">>,
                         zonehosts(hostdata), outcome)
          /\ IF outcome.kind = "ok"
             THEN /\ pc' = "returned" /\ status' = 0 /\ UNCHANGED fault
             ELSE /\ pc' = "raised" /\ fault' = "serialize" /\ UNCHANGED status
    /\ UNCHANGED <<prog, gridfilename, outfilebase, grid, row, supplierdata, hostdata,
                   sidx, arg, result>>

Next ==
    \/ OpenGrid
    \/ SupplierRow
    \/ SupplierReturn
    \/ SupplierMkdir
    \/ SupplierWrite
    \/ SupplierDone
    \/ HostRow
    \/ HostReturn
    \/ HostDhcpd
    \/ HostZone

Spec == Init /\ [][Next]_vars

-----------------------------------------------------------------------------
(* The helpers of getsupplierdata called on their own *)

PureAlphabet == {" ", "/", ".", ":", ",", "'", "+", "&", "_", "[", "a", "Y", "n"}

\* the spellings of a lower-case token in upper and lower case
CaseVariants(token) ==
    { [i \in 1..Len(token) |-> IF up[i] THEN upper_char(token[i]) ELSE token[i]] :
        up \in [1..Len(token) -> BOOLEAN] }

TrueTokens  == { <<"y", "e", "s">>, <<"y">>, <<"t", "r", "u", "e">>, <<"t">> }
FalseTokens == { <<"n", "o">>, <<"n">>, <<"f", "a", "l", "s", "e">>, <<"f">> }

TrueSpellings  == UNION {CaseVariants(token) : token \in TrueTokens}
FalseSpellings == UNION {CaseVariants(token) : token \in FalseTokens}

PureInputs ==
    UNION {[1..n -> PureAlphabet] : n \in 0..MaxLen}
    \cup TrueSpellings \cup FalseSpellings
    \cup {Append(s, " ") : s \in TrueSpellings \cup FalseSpellings}
    \cup { <<"F", "o", "o", " ", "&", " ", "B", "a", "r", ",", " ", "L", "t", "d", ".">> }

InitPure ==
    /\ prog = "pure"
    /\ pc = "call"
    /\ gridfilename = <<>>
    /\ TypeDefaults
    /\ arg \in PureInputs
    /\ result = <<>>

\* map_bool(arg)
CallMapBool ==
    /\ prog = "pure" /\ pc = "call"
    /\ pc' = "map_bool"
    /\ result' = <<map_bool(arg)>>
    /\ UNCHANGED <<prog, gridfilename, outfilebase, grid, row, supplierdata, hostdata,
                   sidx, files, status, fault, arg>>

\* translate_name_id(arg)
CallTranslate ==
    /\ prog = "pure" /\ pc = "call"
    /\ pc' = "translate_name_id"
    /\ result' = <<translate_name_id(arg)>>
    /\ UNCHANGED <<prog, gridfilename, outfilebase, grid, row, supplierdata, hostdata,
                   sidx, files, status, fault, arg>>

\* translate_name_id of the identifier just returned
CallTranslateAgain ==
    /\ prog = "pure" /\ pc = "translate_name_id"
    /\ pc' = "translate_name_id twice"
    /\ result' = Append(result, translate_name_id(result[1]))
    /\ UNCHANGED <<prog, gridfilename, outfilebase, grid, row, supplierdata, hostdata,
                   sidx, files, status, fault, arg>>

NextPure ==
    \/ CallMapBool
    \/ CallTranslate
    \/ CallTranslateAgain

SpecPure == InitPure /\ [][NextPure]_vars

-----------------------------------------------------------------------------
(* Properties *)

\* C6: map_bool returns True for every spelling, in upper or lower case, of
\* yes, y, true, t, False for every spelling of no, n, false, f, and None for
\* every other string, the empty string included.
C6_MapBool ==
    pc = "map_bool" =>
        result[1] = (IF arg \in TrueSpellings THEN PyTrue
                     ELSE IF arg \in FalseSpellings THEN PyFalse
                     ELSE PyNone)

\* map_bool has been called on a spelling that is not in lower case
C6_Witness ==
    /\ pc = "map_bool"
    /\ arg = <<"F", "a", "l", "s", "e">>
    /\ result[1] = PyFalse

\* C7: translate_name_id is idempotent: applied to its own result it returns
\* that result.
C7_Idempotent ==
    pc = "translate_name_id twice" => result[2] = result[1]

\* the second call was made on an identifier that the first call changed
C7_Witness ==
    /\ pc = "translate_name_id twice"
    /\ arg = <<"a", "/", ".">>
    /\ result[1] = <<"a", "_", "_">>


RemoveAt(s, i) == SubSeq(s, 1, i - 1) \o SubSeq(s, i + 1, Len(s))

ReplaceAt(s, i, x) == [j \in 1..Len(s) |-> IF j = i THEN x ELSE s[j]]

\* the whitespace-trimmed supplier name of a row (column 1)
NameOf(h) == strip(h[2])

\* the rows of the grid that qualify: row number above 5, at least 10 cells,
\* a trimmed supplier name that is not empty and does not start with "["
Qualifying ==
    {i \in 1..Len(grid) :
        /\ i > 5
        /\ Len(grid[i]) >= 10
        /\ NameOf(grid[i]) # <<>>
        /\ NameOf(grid[i])[1] # "["}

\* the record a qualifying row gives when it is the only row mapped
RecordOf(h) == supplier_try(<<>>, h)[1].v

LabelOf(sdata) == DictGet(sdata, "rdfs:label").val

FooBarLtd == <<"F", "o", "o", " ", "&", " ", "B", "a", "r", ",", " ", "L", "t", "d", ".">>

\* C1: when two or more qualifying rows have names that normalize to the same
\* identifier, supplierdata holds exactly one record under that identifier,
\* it is the record of the last such row, and getsupplierdata returns status 0.
C1_LastRowWins ==
    prog = "mksupplierdata" /\ pc = "serialize" =>
        /\ \A i \in Qualifying :
              LET id   == translate_name_id(NameOf(grid[i]))
                  same == {j \in Qualifying : translate_name_id(NameOf(grid[j])) = id}
              IN  Cardinality(same) >= 2 =>
                     /\ Cardinality({j \in 1..Len(supplierdata) : supplierdata[j].k = id}) = 1
                     /\ DictGet(supplierdata, id) = RecordOf(grid[SetMax(same)])
        /\ status = 0
        /\ fault = "none"

\* rows 6 and 7 have different names with one identifier, and the one record
\* carries the label of row 7
C1_Witness ==
    /\ prog = "mksupplierdata" /\ pc = "serialize"
    /\ Len(grid) = 7 /\ grid[6] = RowFoo /\ grid[7] = RowFooSlash
    /\ Len(supplierdata) = 1
    /\ LabelOf(supplierdata[1].v) = <<"F", "o", "o", "/", " ", "B", "a", "r", " ", "L", "t", "d", ".">>

\* C2 as stated: a row with fewer than 10 cells (supplier) or 5 cells (host) adds
\* and changes no record and raises nothing, and the map returned is the one
\* the grid without that row gives.
C2_Original ==
    /\ prog = "mksupplierdata" /\ pc = "serialize" =>
          \A i \in 1..Len(grid) :
              Len(grid[i]) < 10 => supplierdata = getsupplierdata(RemoveAt(grid, i))
    /\ prog = "mknetconfig" /\ pc = "dhcpd" =>
          \A i \in 1..Len(grid) :
              Len(grid[i]) < 5 => hostdata = gethostdata(RemoveAt(grid, i))
    /\ pc \in {"serialize", "dhcpd"} => status = 0 /\ fault = "none"

\* C2, amended: the same, where a short supplier row is compared with its absence
\* only when its row number is above 5; a short row among the first five rows
\* still counts as one of the five, so the map is the one the grid gives with
\* any other title row in its place.
C2_ShortRowSkipped ==
    /\ prog = "mksupplierdata" /\ pc = "serialize" =>
          \A i \in 1..Len(grid) :
              Len(grid[i]) < 10 =>
                 IF i > 5
                 THEN supplierdata = getsupplierdata(RemoveAt(grid, i))
                 ELSE \A other \in TitleRowSet :
                         supplierdata = getsupplierdata(ReplaceAt(grid, i, other))
    /\ prog = "mknetconfig" /\ pc = "dhcpd" =>
          \A i \in 1..Len(grid) :
              Len(grid[i]) < 5 => hostdata = gethostdata(RemoveAt(grid, i))
    /\ pc \in {"serialize", "dhcpd"} => status = 0 /\ fault = "none"

\* a short row 6 is followed by a well-formed row 7, whose record is the only one
C2_Witness ==
    /\ prog = "mksupplierdata" /\ pc = "serialize"
    /\ Len(grid) = 7 /\ grid[6] = RowShort /\ grid[7] = RowAcme
    /\ DictKeys(supplierdata) = { <<"A", "c", "m", "e", "_", "C", "o">> }
    /\ DictGet(supplierdata, <<"A", "c", "m", "e", "_", "C", "o">>) = RecordOf(RowAcme)

\* C3: the records of supplierdata are those of the qualifying rows and no
\* others: every rdfs:label is the trimmed name of a row above row 5, is not
\* empty and does not start with "[".
C3_NoPlaceholder ==
    prog = "mksupplierdata" /\ pc = "serialize" =>
        /\ DictKeys(supplierdata) = {translate_name_id(NameOf(grid[i])) : i \in Qualifying}
        /\ \A j \in 1..Len(supplierdata) :
              LET label == LabelOf(supplierdata[j].v)
              IN  /\ label # <<>>
                  /\ label[1] # "["
                  /\ \E i \in Qualifying : NameOf(grid[i]) = label

\* a row whose trimmed name starts with "[" and a row with a blank name have
\* been mapped after the title rows, and no record was made
C3_Witness ==
    /\ prog = "mksupplierdata" /\ pc = "serialize"
    /\ Len(grid) = 7 /\ grid[6] = RowBracket /\ grid[7] = RowBlank
    /\ supplierdata = <<>>


\* the entries of an output file of mknetconfig that carry a host name
EntriesFor(path, name) ==
    {i \in 1..Len(files[path].content) :
        /\ files[path].content[i].kind # "header"
        /\ files[path].content[i].name = name}

\* C4: when mknetconfig has written both files, every host of hostdata has
\* exactly one A line in <base>.zone.hosts; a host with an empty MAC address has
\* no stanza in <base>.dhcpd.conf and a host with a MAC address has one.
C4_MacOptional ==
    prog = "mknetconfig" /\ pc = "returned" /\ fault = "none" =>
        LET dhcpd == outfilebase \o <<".dhcpd.conf">>
            zone  == outfilebase \o <<".zone.hosts">>
        IN  /\ dhcpd \in DOMAIN files /\ files[dhcpd].complete
            /\ zone \in DOMAIN files /\ files[zone].complete
            /\ \A j \in 1..Len(hostdata) :
                  LET h == hostdata[j].v
                  IN  /\ Cardinality(EntriesFor(zone, h.name)) = 1
                      /\ \A i \in EntriesFor(zone, h.name) :
                            /\ files[zone].content[i].kind = "A"
                            /\ files[zone].content[i].ipaddr = h.ipaddr
                      /\ Cardinality(EntriesFor(dhcpd, h.name)) =
                            (IF h.macaddr = <<>> THEN 0 ELSE 1)
                      /\ \A i \in EntriesFor(dhcpd, h.name) :
                            files[dhcpd].content[i].ethernet = h.macaddr

\* both files are written for a host with a MAC address and a host without
C4_Witness ==
    /\ prog = "mknetconfig" /\ pc = "returned" /\ fault = "none"
    /\ grid = <<HostAlpha, HostBeta>>
    /\ Len(files[outfilebase \o <<".dhcpd.conf">>].content) = 2
    /\ Len(files[outfilebase \o <<".zone.hosts">>].content) = 3

\* C5: run of either script ends with status 0 when nothing fails and with
\* status 2 when the input cannot be opened, the file type is not recognized or
\* the serialization fails; in the first two cases neither the mapper nor the
\* serializer has run.
C5_ExitStatus ==
    pc \in {"returned", "raised"} =>
        /\ fault = "none" => pc = "returned" /\ status = 0
        /\ fault \in {"open", "filetype", "serialize"} => pc = "returned" /\ status = 2
        /\ fault \in {"open", "filetype"} => grid = <<>> /\ row = 0 /\ files = NoFiles

\* C8 as stated: a record made from the name "Foo & Bar, Ltd." has the key and
\* the annal:id "Foo_Bar_Ltd.".
C8_Original ==
    prog = "mksupplierdata" =>
        \A j \in 1..Len(supplierdata) :
            LabelOf(supplierdata[j].v) = FooBarLtd =>
               /\ supplierdata[j].k = <<"F", "o", "o", "_", "B", "a", "r", "_", "L", "t", "d", ".">>
               /\ DictGet(supplierdata[j].v, "annal:id").val =
                     <<"F", "o", "o", "_", "B", "a", "r", "_", "L", "t", "d", ".">>

\* C8, amended: a record made from the name "Foo & Bar, Ltd." has the key and
\* the annal:id "Foo__Bar_Ltd_" (each space and the dot give an underscore, the
\* ampersand and the comma are deleted).
C8_Identifier ==
    prog = "mksupplierdata" =>
        \A j \in 1..Len(supplierdata) :
            LabelOf(supplierdata[j].v) = FooBarLtd =>
               /\ supplierdata[j].k =
                     <<"F", "o", "o", "_", "_", "B", "a", "r", "_", "L", "t", "d", "_">>
               /\ DictGet(supplierdata[j].v, "annal:id").val =
                     <<"F", "o", "o", "_", "_", "B", "a", "r", "_", "L", "t", "d", "_">>

\* getsupplierdata has returned a record made from a row named "Foo & Bar, Ltd."
C8_Witness ==
    /\ prog = "mksupplierdata" /\ pc = "serialize"
    /\ Len(grid) = 6 /\ grid[6] = RowFoo
    /\ \E j \in 1..Len(supplierdata) : LabelOf(supplierdata[j].v) = FooBarLtd

\* C9: while at most five rows have been read supplierdata is empty, whatever
\* the rows hold; the sixth row, if well formed, has its record as soon as it is
\* read; a grid of five rows or fewer returns an empty map with status 0.
C9_HeaderSkipped ==
    prog = "mksupplierdata" /\ pc \in {"getdata", "serialize"} =>
        /\ Len(grid) <= 5 => supplierdata = <<>>
        /\ Len(grid) = 6 =>
              supplierdata = (IF 6 \in Qualifying
                              THEN << [k |-> translate_name_id(NameOf(grid[6])),
                                       v |-> RecordOf(grid[6])] >>
                              ELSE <<>>)
        /\ pc = "serialize" /\ Len(grid) <= 5 => status = 0 /\ fault = "none"

\* five rows of which the fifth is well formed have been read and have left no
\* record, and the sixth row has made the first
C9_Witness ==
    /\ prog = "mksupplierdata" /\ pc = "getdata"
    /\ Len(grid) = 6 /\ grid[5] = RowFoo /\ grid[6] = RowAcme
    /\ DictKeys(supplierdata) = { <<"A", "c", "m", "e", "_", "C", "o">> }

\* the path of the file of the j-th record of supplierdata
PathOf(j) == supplier_filepath(outfilebase, supplierdata[j].v)

\* C10: mksupplierjson writes the files in the order of supplierdata, one at a
\* time; when the write for a record fails, the files of the records before it
\* are complete and hold their records, no later record has a file, and run
\* returns 2.
C10_NoRollback ==
    prog = "mksupplierdata" =>
        /\ pc = "write" =>
              /\ DOMAIN files = {PathOf(j) : j \in 1..(sidx - 1)}
              /\ \A j \in 1..(sidx - 1) :
                    files[PathOf(j)] =
                       [complete |-> TRUE, content |-> entity_data(supplierdata[j].v)]
        /\ pc = "returned" /\ fault = "serialize" =>
              /\ status = 2
              /\ \A j \in 1..Len(supplierdata) :
                    /\ j < sidx =>
                          /\ PathOf(j) \in DOMAIN files
                          /\ files[PathOf(j)] =
                                [complete |-> TRUE, content |-> entity_data(supplierdata[j].v)]
                    /\ j > sidx => PathOf(j) \notin DOMAIN files

\* the write of the second record failed part way: the first file is complete
\* and the second is partial
C10_Witness ==
    /\ prog = "mksupplierdata" /\ pc = "returned" /\ fault = "serialize"
    /\ Len(supplierdata) = 2 /\ sidx = 2
    /\ files[PathOf(1)].complete
    /\ PathOf(2) \in DOMAIN files /\ ~files[PathOf(2)].complete

=============================================================================
